---------------------------- MODULE Spec2Model ----------------------------
(* Model of the codebase guardian of study_os                              *)
(* (src/core/codebase_guardian.py): the watch thread's on_modified, the    *)
(* scheduler loop start/process_changes, the per-path sequence             *)
(* handle_file_change and the healing pipeline CodebaseDoctor.heal.        *)
(*                                                                         *)
(* Time is counted in tenths of a second.  A text is a sequence of         *)
(* one-character strings; "\n" is the line terminator.                     *)
(*                                                                         *)
(* The watch thread (on_modified) and the clock run concurrently with the  *)
(* scheduler loop and may take a step between any two steps of it; the     *)
(* scheduler's steps are cut at its await points and at each step of the   *)
(* dict iterator.  The files get their contents before the guardian        *)
(* starts; afterwards only heal writes them, and a change event says that  *)
(* a file was touched.  run, trace, examined, failed, last_event and       *)
(* rearmed record what the code computed or did; the code does not read    *)
(* them.  fn_in, fn_out and fn_pass belong to the specifications that      *)
(* study one stage of the pipeline on its own, over bounded inputs.        *)
EXTENDS Integers, Sequences, FiniteSets, TLC

\* ------------------------------------------------------------------ bounds
\* The clock advances in steps of TickStep tenths of a second, up to MaxTime.
TickStep == 5
MaxTime == 25

\* A text given to _fix_syntax on its own has at most MaxLines lines, and
\* the stage is applied to it Passes times in a row.
MaxLines == 2
Passes == 2

\* A module given to the tree passes on their own has at most MaxDefs
\* function definitions of at most MaxParams parameters each.
MaxDefs == 2
MaxParams == 2

\* The watch thread studied on its own delivers at most MaxEvents events.
MaxEvents == 3

\* The guardian followed over a longer time: the clock goes up to
\* MaxTimeLong, and at most MaxEdits change events come from outside.
MaxTimeLong == 40
MaxEdits == 1

\* --------------------------------------------------------- program constants
\* self.debounce_time = 1.5 seconds, in tenths of a second.
DebounceTime == 15

\* The watched source files.
Paths == {"a.py", "b.py"}
NoPath == ""
NoTime == -1
NoText == <<"<none>">>

\* ------------------------------------------------------------ str helpers
IsSpace(c) == c \in {" ", "\t", "\n"}

RECURSIVE lstrip(_)
lstrip(s) ==
    IF s # <<>> /\ IsSpace(Head(s)) THEN lstrip(Tail(s)) ELSE s

RECURSIVE rstrip(_)
rstrip(s) ==
    IF s # <<>> /\ IsSpace(s[Len(s)]) THEN rstrip(SubSeq(s, 1, Len(s) - 1)) ELSE s

startswith(s, prefix) ==
    Len(s) >= Len(prefix) /\ SubSeq(s, 1, Len(prefix)) = prefix

endswith(s, suffix) ==
    Len(s) >= Len(suffix) /\ SubSeq(s, Len(s) - Len(suffix) + 1, Len(s)) = suffix

\* str.splitlines(): the lines of a text, without their terminators; a final
\* terminator does not open another line.
RECURSIVE SplitLinesFrom(_, _)
SplitLinesFrom(s, line) ==
    IF s = <<>> THEN (IF line = <<>> THEN <<>> ELSE <<line>>)
    ELSE IF Head(s) = "\n" THEN <<line>> \o SplitLinesFrom(Tail(s), <<>>)
    ELSE SplitLinesFrom(Tail(s), Append(line, Head(s)))

splitlines(s) == SplitLinesFrom(s, <<>>)

\* "\n".join(lines)
RECURSIVE join(_)
join(lines) ==
    IF lines = <<>> THEN <<>>
    ELSE IF Len(lines) = 1 THEN lines[1]
    ELSE lines[1] \o <<"\n">> \o join(Tail(lines))

\* str.split(): the maximal runs of non-whitespace characters.
RECURSIVE SplitFrom(_, _)
SplitFrom(s, word) ==
    IF s = <<>> THEN (IF word = <<>> THEN <<>> ELSE <<word>>)
    ELSE IF IsSpace(Head(s))
         THEN (IF word = <<>> THEN <<>> ELSE <<word>>) \o SplitFrom(Tail(s), <<>>)
    ELSE SplitFrom(Tail(s), Append(word, Head(s)))

split(s) == SplitFrom(s, <<>>)

\* str.split("#")[0]: the text before the first "#".
RECURSIVE BeforeHash(_)
BeforeHash(s) ==
    IF s = <<>> \/ Head(s) = "#" THEN <<>> ELSE <<Head(s)>> \o BeforeHash(Tail(s))

\* re.sub(r'\\"\\"\\"', '"""', s): every backslash-escaped triple quote,
\* scanned left to right, becomes a plain triple quote.
EscapedTripleQuote == <<"\\", "\"", "\\", "\"", "\\", "\"">>
TripleQuote == <<"\"", "\"", "\"">>

RECURSIVE SubEscapedQuotes(_)
SubEscapedQuotes(s) ==
    IF s = <<>> THEN <<>>
    ELSE IF startswith(s, EscapedTripleQuote)
         THEN TripleQuote \o SubEscapedQuotes(SubSeq(s, 7, Len(s)))
    ELSE <<Head(s)>> \o SubEscapedQuotes(Tail(s))

\* Keywords as character sequences.
KwTry == <<"t", "r", "y">>
KwExcept == <<"e", "x", "c", "e", "p", "t">>
KwFinally == <<"f", "i", "n", "a", "l", "l", "y">>
KwDefSp == <<"d", "e", "f", " ">>
KwClassSp == <<"c", "l", "a", "s", "s", " ">>
Colon == <<":">>

\* ------------------------------------------------ CodebaseDoctor._fix_syntax
\* The body of the loop of _fix_syntax for one line.
FixLine(line) ==
    LET stripped_line == lstrip(line)
        parts == split(stripped_line)
        temp_line == rstrip(BeforeHash(stripped_line))
        corrected_line ==
            IF startswith(stripped_line, KwTry) /\ ~endswith(stripped_line, Colon)
            THEN line \o Colon
            ELSE IF startswith(stripped_line, KwExcept) /\ ~endswith(stripped_line, Colon)
            THEN IF \/ /\ Len(parts) > 1
                       /\ parts[1] = KwExcept
                       /\ ~endswith(parts[Len(parts)], Colon)
                    \/ (Len(parts) = 1 /\ parts[1] = KwExcept)
                 THEN line \o Colon
                 ELSE line
            ELSE IF \/ (stripped_line = KwFinally /\ ~endswith(stripped_line, Colon))
                    \/ /\ startswith(stripped_line, KwDefSp)
                       /\ endswith(stripped_line, <<")">>)
                       /\ ~endswith(stripped_line, Colon)
            THEN line \o Colon
            ELSE IF startswith(stripped_line, KwClassSp)
            THEN IF ~endswith(temp_line, Colon) THEN line \o Colon ELSE line
            ELSE line
    IN  SubEscapedQuotes(corrected_line)

_fix_syntax(code) ==
    LET lines == splitlines(code)
    IN  join([i \in 1..Len(lines) |-> FixLine(lines[i])])


\* ------------------------------------------- CodebaseDoctor._safe_ast_fixes
\* The leading word of a statement: its characters up to the first blank,
\* parenthesis or colon.
RECURSIVE LeadingWord(_)
LeadingWord(s) ==
    IF s = <<>> \/ IsSpace(Head(s)) \/ Head(s) \in {"(", ":"} THEN <<>>
    ELSE <<Head(s)>> \o LeadingWord(Tail(s))

BlockKeywords ==
    {KwTry, KwExcept, KwFinally, <<"d", "e", "f">>, <<"c", "l", "a", "s", "s">>}

\* parse_module(code) of the parser library, on the texts of this model: it
\* raises on a character that is no Python token ("$") and on a compound
\* statement header that lacks its colon.
LineParses(line) ==
    LET stmt == rstrip(BeforeHash(lstrip(line)))
    IN  /\ \A i \in 1..Len(stmt) : stmt[i] # "$"
        /\ LeadingWord(stmt) \in BlockKeywords => endswith(stmt, Colon)

parse_module_ok(code) ==
    LET lines == splitlines(code)
    IN  \A i \in 1..Len(lines) : LineParses(lines[i])

\* Variant: a parse error is swallowed and the text passes through.
safe_ast_fixes_raises_never(code) == FALSE

\* _safe_ast_fixes(code) raises what parse_module raises.
safe_ast_fixes_raises(code) == ~parse_module_ok(code)

\* _safe_ast_fixes(code) when parse_module succeeded.  LoggerFixCommand and
\* SelfAdderCommand only define visit_* methods; a transformer takes
\* replacement nodes from leave_* methods and reads the result of a visit_*
\* method only as "descend into the children or not", so both passes return
\* the tree they were given and final_tree.code is the parsed text.
_safe_ast_fixes(code) == code

\* The tree passes of _safe_ast_fixes, on the parsed module.  A module is
\* a sequence of FunctionDef and Call nodes; a FunctionDef node has the
\* names of its parameters, a Call node has its func, which is a Name or an
\* Attribute (value.attr).  What a visit_* method returns is None or a node.
None == [returned |-> "None"]

Returned(node) == [returned |-> "node", node |-> node]

\* SelfAdderCommand.visit_FunctionDef; super().visit_FunctionDef(node) is
\* the visitor's default, which returns None.
visit_FunctionDef(node) ==
    IF node.params = <<>> \/ node.params[1] \in {"self", "cls"}
    THEN None
    ELSE LET self_param == "self"
             new_params_tuple == <<self_param>> \o node.params
         IN  Returned([node EXCEPT !.params = new_params_tuple])

\* The transformer's on_visit: it calls visit_<Type>(node) and answers
\* whether to descend into the children: "False if retval is False else
\* True".  The object a visit_* method returns is used for nothing else.
on_visit(node) ==
    IF node.type = "FunctionDef"
    THEN visit_FunctionDef(node).returned # "False"
    ELSE TRUE

\* The transformer's on_leave without a leave_<Type> method: the node with
\* its transformed children.
on_leave(original_node, updated_node) == updated_node

\* node.visit(transformer): the parameters are the children of a
\* FunctionDef, func is the child of a Call, and neither command has a
\* method for them.
visit_node(node) ==
    LET with_updated_children == node
    IN  IF on_visit(node)
        THEN on_leave(node, with_updated_children)
        ELSE on_leave(node, node)

\* SelfAdderCommand(context).transform_module(tree)
SelfAdder_transform_module(tree) ==
    [i \in 1..Len(tree) |-> visit_node(tree[i])]

\* LoggerFixCommand.visit_Call; super().visit_Call(node) is the visitor's
\* default, which returns None.
visit_Call(node) ==
    IF node.func.type # "Attribute"
    THEN None
    ELSE IF node.func.value.type # "Name"
    THEN None
    ELSE IF node.func.attr = "warn" /\ node.func.value.value = "logger"
    THEN LET new_attr == "warning"
             new_func == [node.func EXCEPT !.attr = new_attr]
         IN  Returned([node EXCEPT !.func = new_func])
    ELSE None

\* on_visit of LoggerFixCommand, which has a visit method for Call only.
LoggerFix_on_visit(node) ==
    IF node.type = "Call"
    THEN visit_Call(node).returned # "False"
    ELSE TRUE

\* node.visit(LoggerFixCommand(context))
LoggerFix_visit_node(node) ==
    LET with_updated_children == node
    IN  IF LoggerFix_on_visit(node)
        THEN on_leave(node, with_updated_children)
        ELSE on_leave(node, node)

\* LoggerFixCommand(context).transform_module(tree)
LoggerFix_transform_module(tree) ==
    [i \in 1..Len(tree) |-> LoggerFix_visit_node(tree[i])]

\* ------------------------------------------------------ environment inputs
\* Contents of the watched files before the guardian starts: a module ending
\* in a newline, a try statement whose header lacks the colon, and a text no
\* stage can repair.
TextPlain == <<"x", "\n">>
TextTry == <<"t", "r", "y", "\n", " ", "x", "\n",
             "e", "x", "c", "e", "p", "t", ":", "\n", " ", "x">>
TextBad == <<"x", " ", "$">>
FileTexts == {TextPlain, TextTry, TextBad}

\* Lines given to _fix_syntax on its own: block openers with and without
\* their colon, with trailing blanks or a trailing comment, indented, and
\* ordinary lines, one of which begins with the letters of a keyword.
Sp == <<" ">>
Comment == <<" ", "#", "c">>
ExceptE == KwExcept \o <<" ", "E">>
DefF == KwDefSp \o <<"f", "(", ")">>
ClassA == KwClassSp \o <<"A">>
TryOut == KwTry \o <<"o", "u", "t">>

SampleLines ==
    {KwTry, KwTry \o Colon, KwTry \o Sp, KwTry \o Comment,
     KwTry \o Colon \o Comment, Sp \o KwTry,
     KwExcept, KwExcept \o Colon, ExceptE, ExceptE \o Colon,
     KwFinally, KwFinally \o Colon, KwFinally \o Sp,
     DefF, DefF \o Colon, DefF \o Comment,
     ClassA, ClassA \o Colon, ClassA \o Comment, ClassA \o Colon \o Comment,
     <<"x">>, TryOut}

PatchInputs ==
    {join(ls) : ls \in UNION {[1..n -> SampleLines] : n \in 1..MaxLines}}

\* Modules given to the tree passes on their own.
ParamNames == {"self", "cls", "x", "y"}

FunctionDefs ==
    {[type |-> "FunctionDef", params |-> ps] :
        ps \in UNION {[1..n -> ParamNames] : n \in 0..MaxParams}}

\* Calls: f(...), <name>.<attr>(...) and <name>.<name>.<attr>(...).
Name(v) == [type |-> "Name", value |-> v]

Attribute(v, a) == [type |-> "Attribute", value |-> v, attr |-> a]

Receivers == {Name("logger"), Name("log"), Attribute(Name("self"), "logger")}

AttrNames == {"warn", "info"}

Calls ==
    {[type |-> "Call", func |-> f] :
        f \in {Name("f")} \cup {Attribute(v, a) : v \in Receivers, a \in AttrNames}}

Modules == UNION {[1..n -> FunctionDefs \cup Calls] : n \in 1..MaxDefs}

\* What the formatter and the lint fixer can print on standard output.
FormatOutputs == {<<"f", "\n">>}
FixOutputs == {<<"g", "\n">>}

\* Outcomes of starting and running one external tool invocation:
\* exit code 0, a non-zero exit code, FileNotFoundError, another exception.
ToolOutcomes == {"rc0", "rc1", "missing", "error"}

\* Outcomes of opening the file for writing and writing it: written, open
\* refused (file untouched), failure after open(path, "w") truncated the file.
WriteOutcomes == {"ok", "open_failed", "write_failed"}

\* The notifications that show_notification prints with error=True: the
\* one of handle_file_change's except clause and the four of
\* _ruff_check_and_format.
ToolErrorNotifications ==
    {"notify_format_failed", "notify_fix_failed", "notify_ruff_missing",
     "notify_ruff_error"}

ErrorNotifications == {"notify_error"} \cup ToolErrorNotifications

\* ------------------------------------------------------------------ state
VARIABLES
    clock,          \* time.time(), in tenths of a second
    change_cache,   \* UnifiedGuardian.change_cache, in insertion order
    files,          \* content of each watched file on disk
    pc,             \* position of the scheduler loop
    now,            \* process_changes: now
    processed,      \* process_changes: processed
    it_pos,         \* dict iterator: index of the next entry
    it_used,        \* dict iterator: size of the dict when it was created
    path,           \* the loop variable of process_changes
    run,            \* locals of heal / _ruff_check_and_format for path
    trace,          \* what the per-path sequence for path did, in order
    examined,       \* per path, the timestamp the running scan read for it
    failed,         \* paths whose per-path sequence failed in the running scan
    last_event,     \* per path, time of the last on_modified since removal
    rearmed,        \* paths with an on_modified since their last dispatch
    started,        \* per path, how many per-path sequences were entered
    finished,       \* per path, how many per-path sequences were left
    inflight,       \* paths whose write-back event the observer still holds
    fn_in,          \* a stage studied on its own: the value given to it
    fn_out,         \* ... the value it returned last
    fn_pass,        \* ... how many times it has been applied
    observer,       \* UnifiedGuardian.observer: "alive" or "stopped"
    launcher        \* who called start(): "run_guardian" or "app"

vars == <<clock, change_cache, files, pc, now, processed, it_pos, it_used,
          path, run, trace, examined, failed, last_event, rearmed,
          started, finished, inflight, fn_in, fn_out, fn_pass, observer,
          launcher>>

\* The variables no step of the scheduler loop or of the watch thread
\* changes: those of a stage studied on its own, the state of the observer
\* and the caller of start().
stage == <<fn_in, fn_out, fn_pass, observer, launcher>>

sched == <<pc, now, processed, it_pos, it_used, path, run, trace, examined,
           failed>>

\* The per-path sequences entered and left, and the write-back events.
hist == <<started, finished, inflight>>

NoRun == [code |-> NoText, safe_fixed |-> NoText, formatted |-> NoText,
          final_code |-> NoText, format |-> "", fix |-> "",
          format_out |-> NoText, fix_in |-> NoText, fix_out |-> NoText,
          healed |-> "none", doc_content |-> NoText]

CachePaths == {change_cache[i].path : i \in 1..Len(change_cache)}

IndexOf(p) == CHOOSE i \in 1..Len(change_cache) : change_cache[i].path = p

Timestamp(p) == change_cache[IndexOf(p)].timestamp

SeqToSet(s) == {s[i] : i \in 1..Len(s)}

\* UnifiedGuardian() constructed and start() past observer.start(): the
\* observer thread is alive and the loop is about to scan.
InitGuardian ==
    /\ clock = 0
    /\ change_cache = <<>>
    /\ files \in [Paths -> FileTexts]
    /\ pc = "sleep"
    /\ now = NoTime
    /\ processed = <<>>
    /\ it_pos = 0
    /\ it_used = 0
    /\ path = NoPath
    /\ run = NoRun
    /\ trace = <<>>
    /\ examined = [p \in Paths |-> NoTime]
    /\ failed = {}
    /\ last_event = [p \in Paths |-> NoTime]
    /\ rearmed = {}
    /\ started = [p \in Paths |-> 0]
    /\ finished = [p \in Paths |-> 0]
    /\ inflight = {}
    /\ fn_in = <<>>
    /\ fn_out = <<>>
    /\ fn_pass = 0
    /\ observer = "alive"

\* The guardian run on its own: main() of run_guardian.py awaits start().
Init ==
    /\ InitGuardian
    /\ launcher = "run_guardian"

\* ------------------------------------------------------------- environment
\* Time passes.
Tick ==
    /\ clock + TickStep <= MaxTime
    /\ clock' = clock + TickStep
    /\ UNCHANGED <<change_cache, files, last_event, rearmed, sched, stage, hist>>

\* Variant: an existing key keeps the value it has (dict.setdefault).
DictSet_keep_first(d, p, t) ==
    IF \E i \in 1..Len(d) : d[i].path = p
    THEN d
    ELSE Append(d, [path |-> p, timestamp |-> t])

\* dict.__setitem__: an existing key keeps its position and takes the new
\* value, a new key is appended.
DictSet(d, p, t) ==
    IF \E i \in 1..Len(d) : d[i].path = p
    THEN [i \in 1..Len(d) |->
            IF d[i].path = p THEN [path |-> p, timestamp |-> t] ELSE d[i]]
    ELSE Append(d, [path |-> p, timestamp |-> t])

\* The events the observer can deliver: modifications of the two source
\* files, of a text file, of a compiled file, and of a directory whose name
\* ends in ".py".
PathChars ==
    [n \in {"a.py", "b.py", "a.txt", "a.pyc", "pkg.py"} |->
        CASE n = "a.py" -> <<"a", ".", "p", "y">>
          [] n = "b.py" -> <<"b", ".", "p", "y">>
          [] n = "a.txt" -> <<"a", ".", "t", "x", "t">>
          [] n = "a.pyc" -> <<"a", ".", "p", "y", "c">>
          [] n = "pkg.py" -> <<"p", "k", "g", ".", "p", "y">>]

DotPy == <<".", "p", "y">>

Events ==
    {[src_path |-> n, is_directory |-> (n = "pkg.py")] : n \in DOMAIN PathChars}

\* Variant: the handler does not look at event.is_directory.
on_modified_effect_any_py(event) ==
    IF endswith(PathChars[event.src_path], DotPy)
    THEN LET p == event.src_path
         IN  /\ change_cache' = DictSet(change_cache, p, clock)
             /\ last_event' = [n \in DOMAIN last_event \cup {p} |->
                                 IF n = p THEN clock ELSE last_event[n]]
             /\ rearmed' = rearmed \cup {p}
    ELSE UNCHANGED <<change_cache, last_event, rearmed>>

\* The body of GuardianHandler.on_modified: what it does to the guardian.
on_modified_effect(event) ==
    IF ~event.is_directory /\ endswith(PathChars[event.src_path], DotPy)
    THEN LET p == event.src_path
         IN  /\ change_cache' = DictSet(change_cache, p, clock)
             /\ last_event' = [last_event EXCEPT ![p] = clock]
             /\ rearmed' = rearmed \cup {p}
    ELSE UNCHANGED <<change_cache, last_event, rearmed>>

\* GuardianHandler.on_modified, on the watch thread: the observer calls it
\* for as long as it has not been stopped.
on_modified(event) ==
    /\ observer = "alive"
    /\ on_modified_effect(event)
    /\ UNCHANGED <<clock, files, sched, stage, hist>>

\* --------------------------------------------- UnifiedGuardian.process_changes
\* now = time.time(); processed = []; the for statement creates the iterator
\* over change_cache.items().  The asyncio.sleep(0.1) of start() before it is
\* shorter than a step of the clock, so a scan may begin at any time.
process_changes_begin ==
    /\ pc = "sleep"
    /\ pc' = "iterate"
    /\ now' = clock
    /\ processed' = <<>>
    /\ it_pos' = 1
    /\ it_used' = Len(change_cache)
    /\ examined' = [p \in Paths |-> NoTime]
    /\ failed' = {}
    /\ run' = NoRun
    /\ trace' = <<>>
    /\ UNCHANGED <<clock, change_cache, files, last_event, path, rearmed, stage, hist>>

\* Variant: a window that has just elapsed counts as elapsed.
Elapsed_inclusive(n, timestamp) == n - timestamp >= DebounceTime

\* Variant: the time is read again for every entry (time.time() in the
\* loop body) instead of once before the loop.
Elapsed_fresh_now(n, timestamp) == clock - timestamp > DebounceTime

\* if now - timestamp > self.debounce_time
Elapsed(n, timestamp) == n - timestamp > DebounceTime

\* Variant: the handler is started as a task and not awaited
\* (asyncio.create_task): the scan goes on while the per-path sequence runs,
\* and the path is not appended to processed.
iterate_next_no_await ==
    /\ pc = "iterate"
    /\ run' = NoRun
    /\ trace' = <<>>
    /\ IF Len(change_cache) # it_used
       THEN /\ pc' = "crashed"
            /\ UNCHANGED <<it_pos, path, examined, rearmed, started>>
       ELSE IF it_pos > Len(change_cache)
       THEN /\ pc' = "delete"
            /\ UNCHANGED <<it_pos, path, examined, rearmed, started>>
       ELSE LET entry == change_cache[it_pos]
            IN  /\ it_pos' = it_pos + 1
                /\ path' = entry.path
                /\ examined' = [examined EXCEPT ![entry.path] = entry.timestamp]
                /\ pc' = "iterate"
                /\ IF Elapsed(now, entry.timestamp)
                   THEN /\ rearmed' = rearmed \ {entry.path}
                        /\ started' = [started EXCEPT ![entry.path] = @ + 1]
                   ELSE UNCHANGED <<rearmed, started>>
    /\ UNCHANGED <<clock, change_cache, files, last_event, now, processed, it_used,
                   failed, stage, finished, inflight>>

\* One step of the for loop: the iterator's __next__ raises RuntimeError
\* ("dictionary changed size during iteration") when the dict no longer has
\* the size it had when the iterator was created, stops after the last
\* entry, and otherwise yields the next (path, timestamp); the loop body
\* compares the timestamp with now and enters handle_file_change.
iterate_next ==
    /\ pc = "iterate"
    /\ run' = NoRun
    /\ trace' = <<>>
    /\ IF Len(change_cache) # it_used
       THEN /\ pc' = "crashed"
            /\ UNCHANGED <<it_pos, path, examined, rearmed, started>>
       ELSE IF it_pos > Len(change_cache)
       THEN /\ pc' = "delete"
            /\ UNCHANGED <<it_pos, path, examined, rearmed, started>>
       ELSE LET entry == change_cache[it_pos]
            IN  /\ it_pos' = it_pos + 1
                /\ path' = entry.path
                /\ examined' = [examined EXCEPT ![entry.path] = entry.timestamp]
                /\ IF Elapsed(now, entry.timestamp)
                   THEN /\ pc' = "heal_read"
                        /\ rearmed' = rearmed \ {entry.path}
                        /\ started' = [started EXCEPT ![entry.path] = @ + 1]
                   ELSE pc' = "iterate" /\ UNCHANGED <<rearmed, started>>
    /\ UNCHANGED <<clock, change_cache, files, last_event, now, processed, it_used,
                   failed, stage, finished, inflight>>

\* Variant: the second loop empties the dict (change_cache.clear()).
delete_processed_clear ==
    /\ pc = "delete"
    /\ IF processed = <<>>
       THEN /\ pc' = "sleep"
            /\ UNCHANGED <<change_cache, processed, last_event>>
       ELSE /\ change_cache' = <<>>
            /\ processed' = <<>>
            /\ last_event' = [p \in Paths |-> NoTime]
            /\ UNCHANGED pc
    /\ UNCHANGED <<clock, files, now, it_pos, it_used, path, run, trace, examined,
                   failed, rearmed, stage, hist>>

\* The second loop of process_changes, one del per step; after the last one
\* process_changes returns and start() sleeps until the next scan.
delete_processed ==
    /\ pc = "delete"
    /\ IF processed = <<>>
       THEN /\ pc' = "sleep"
            /\ UNCHANGED <<change_cache, processed, last_event>>
       ELSE LET p == Head(processed)
            IN  /\ change_cache' = SelectSeq(change_cache, LAMBDA e : e.path # p)
                /\ processed' = Tail(processed)
                /\ last_event' = [last_event EXCEPT ![p] = NoTime]
                /\ UNCHANGED pc
    /\ UNCHANGED <<clock, files, now, it_pos, it_used, path, run, trace, examined,
                   failed, rearmed, stage, hist>>

\* ------------------------------------------ UnifiedGuardian.handle_file_change
\* Variant: the notification is emitted only for a healed file.
FinishUnhealed_silent(r, events) ==
    /\ finished' = [finished EXCEPT ![path] = @ + 1]
    /\ run' = [r EXCEPT !.healed = "false"]
    /\ trace' = trace \o events \o <<"heal_false">>
    /\ processed' = Append(processed, path)
    /\ failed' = failed \cup {path}
    /\ pc' = "iterate"

\* Variant: a path whose heal returned False is not appended to processed,
\* so it stays in change_cache for the next scan.
FinishUnhealed_keep_pending(r, events) ==
    /\ finished' = [finished EXCEPT ![path] = @ + 1]
    /\ run' = [r EXCEPT !.healed = "false"]
    /\ trace' = trace \o events \o <<"heal_false", "notify_ok">>
    /\ failed' = failed \cup {path}
    /\ pc' = "iterate"
    /\ UNCHANGED processed

\* Variant: doc.generate is called whatever heal returned.
FinishUnhealed_with_doc(r, events) ==
    /\ finished' = [finished EXCEPT ![path] = @ + 1]
    /\ run' = [r EXCEPT !.healed = "false", !.doc_content = files[path]]
    /\ trace' = trace \o events
                    \o <<"heal_false", "doc_read", "notify_docs", "notify_ok">>
    /\ processed' = Append(processed, path)
    /\ failed' = failed \cup {path}
    /\ pc' = "iterate"

\* The end of handle_file_change once heal has returned False: the doc step
\* is skipped, show_notification("Processed ...") runs, the handler returns
\* and process_changes appends the path to processed.
FinishUnhealed(r, events) ==
    /\ finished' = [finished EXCEPT ![path] = @ + 1]
    /\ run' = [r EXCEPT !.healed = "false"]
    /\ trace' = trace \o events \o <<"heal_false", "notify_ok">>
    /\ processed' = Append(processed, path)
    /\ failed' = failed \cup {path}
    /\ pc' = "iterate"

\* Variant: heal parses the text it read and patches the colons afterwards.
heal_read_parse_first ==
    /\ pc = "heal_read"
    /\ \E readable \in BOOLEAN :
        IF ~readable
        THEN FinishUnhealed(run, <<"read_failed">>)
        ELSE LET code == files[path]
             IN  IF safe_ast_fixes_raises(code)
                 THEN FinishUnhealed([run EXCEPT !.code = code],
                                     <<"read", "parse_failed">>)
                 ELSE /\ run' = [run EXCEPT !.code = code,
                                            !.safe_fixed = _fix_syntax(_safe_ast_fixes(code))]
                      /\ trace' = trace \o <<"read", "safe_ast_fixes", "fix_syntax">>
                      /\ pc' = "ruff_format"
                      /\ UNCHANGED <<processed, failed, finished>>
    /\ UNCHANGED <<clock, change_cache, files, last_event, now, it_pos, it_used,
                   path, examined, rearmed, stage, started, inflight>>

\* heal up to its first external call: read the file, _fix_syntax,
\* _safe_ast_fixes.  A failing open/read or a parse error is caught by
\* heal's except clause, which returns False.
heal_read ==
    /\ pc = "heal_read"
    /\ \E readable \in BOOLEAN :
        IF ~readable
        THEN FinishUnhealed(run, <<"read_failed">>)
        ELSE LET code == files[path]
                 fixed_code == _fix_syntax(code)
             IN  IF safe_ast_fixes_raises(fixed_code)
                 THEN FinishUnhealed([run EXCEPT !.code = code],
                                     <<"read", "fix_syntax", "parse_failed">>)
                 ELSE /\ run' = [run EXCEPT !.code = code,
                                            !.safe_fixed = _safe_ast_fixes(fixed_code)]
                      /\ trace' = trace \o <<"read", "fix_syntax", "safe_ast_fixes">>
                      /\ pc' = "ruff_format"
                      /\ UNCHANGED <<processed, failed, finished>>
    /\ UNCHANGED <<clock, change_cache, files, last_event, now, it_pos, it_used,
                   path, examined, rearmed, stage, started, inflight>>

\* Variant: a failed formatter yields the text heal read from the file.
format_fallback_original(r) == r.code

\* formatted_code = code, when ruff format exits non-zero.
format_fallback(r) == r.safe_fixed

\* Variant: a failed lint fix yields the input of the whole stage.
fix_fallback_stage_input(r) == r.safe_fixed

\* final_code = formatted_code, when ruff check --fix exits non-zero.
fix_fallback(r) == r.formatted

\* Variant: a failure after the formatter has run keeps the formatter's
\* result.
unavailable_fallback_keep_formatted(r) ==
    IF r.formatted # NoText THEN r.formatted ELSE r.safe_fixed

\* Variant: without the tool the stage yields an empty text.
unavailable_fallback_empty(r) == <<>>

\* return code, in the except clauses of _ruff_check_and_format.
unavailable_fallback(r) == r.safe_fixed

\* _ruff_check_and_format, step 1: ruff format over code (= safe_fixed).
ruff_format ==
    /\ pc = "ruff_format"
    /\ \E outcome \in ToolOutcomes, out \in FormatOutputs :
        CASE outcome = "rc0" ->
                /\ run' = [run EXCEPT !.format = outcome, !.format_out = out,
                                      !.formatted = out]
                /\ trace' = Append(trace, "format")
                /\ pc' = "ruff_fix"
          [] outcome = "rc1" ->
                /\ run' = [run EXCEPT !.format = outcome,
                                      !.formatted = format_fallback(run)]
                /\ trace' = trace \o <<"format", "notify_format_failed">>
                /\ pc' = "ruff_fix"
          [] outcome \in {"missing", "error"} ->
                /\ run' = [run EXCEPT !.format = outcome,
                                      !.final_code = unavailable_fallback(run)]
                /\ trace' = trace \o <<"format", "notify_ruff_" \o outcome>>
                /\ pc' = "heal_write"
    /\ UNCHANGED <<clock, change_cache, files, last_event, now, processed, it_pos,
                   it_used, path, examined, failed, rearmed, stage, hist>>

\* _ruff_check_and_format, step 2: ruff check --fix over formatted_code.
ruff_fix ==
    /\ pc = "ruff_fix"
    /\ \E outcome \in ToolOutcomes, out \in FixOutputs :
        CASE outcome = "rc0" ->
                /\ run' = [run EXCEPT !.fix = outcome, !.fix_out = out,
                                      !.fix_in = run.formatted,
                                      !.final_code = out]
                /\ trace' = Append(trace, "fix")
          [] outcome = "rc1" ->
                /\ run' = [run EXCEPT !.fix = outcome,
                                      !.fix_in = run.formatted,
                                      !.final_code = fix_fallback(run)]
                /\ trace' = trace \o <<"fix", "notify_fix_failed">>
          [] outcome \in {"missing", "error"} ->
                /\ run' = [run EXCEPT !.fix = outcome,
                                      !.final_code = unavailable_fallback(run)]
                /\ trace' = trace \o <<"fix", "notify_ruff_" \o outcome>>
    /\ pc' = "heal_write"
    /\ UNCHANGED <<clock, change_cache, files, last_event, now, processed, it_pos,
                   it_used, path, examined, failed, rearmed, stage, hist>>

\* Variant: heal returns True whatever the write did.
heal_returns_always(outcome) == TRUE

\* heal returns True after the write, False from its except clause.
heal_returns(outcome) == outcome = "ok"

\* The file after open(path, "w") and write(final_code).
Written(outcome, old, new) ==
    CASE outcome = "ok" -> new
      [] outcome = "open_failed" -> old
      [] outcome = "write_failed" -> <<>>

\* heal, write-back: open(path, "w") and write(final_code); any failure is
\* caught by heal's except clause, which returns False.  A file that was
\* opened for writing has been modified, and the observer, which watches the
\* directory of the file, holds a modification event for it.
heal_write ==
    /\ pc = "heal_write"
    /\ \E outcome \in WriteOutcomes :
        LET events == IF outcome = "ok" THEN <<"write">> ELSE <<"write_failed">>
        IN  /\ files' = [files EXCEPT ![path] = Written(outcome, @, run.final_code)]
            /\ inflight' = IF outcome = "open_failed" THEN inflight
                           ELSE inflight \cup {path}
            /\ IF heal_returns(outcome)
               THEN /\ run' = [run EXCEPT !.healed = "true"]
                    /\ trace' = trace \o events \o <<"heal_true">>
                    /\ pc' = "doc_generate"
                    /\ UNCHANGED <<processed, failed, finished>>
               ELSE FinishUnhealed(run, events)
    /\ UNCHANGED <<clock, change_cache, last_event, now, it_pos, it_used, path,
                   examined, rearmed, stage, started>>

\* Variant: handle_file_change without its except clause: a failing
\* doc.generate raises out of the handler and out of the scan.
doc_generate_uncaught ==
    /\ pc = "doc_generate"
    /\ finished' = [finished EXCEPT ![path] = @ + 1]
    /\ \E readable \in BOOLEAN :
        IF readable
        THEN /\ trace' = trace \o <<"doc_read", "notify_docs", "notify_ok">>
             /\ run' = [run EXCEPT !.doc_content = files[path]]
             /\ processed' = Append(processed, path)
             /\ pc' = "iterate"
             /\ UNCHANGED failed
        ELSE /\ trace' = trace \o <<"doc_read_failed">>
             /\ failed' = failed \cup {path}
             /\ pc' = "crashed"
             /\ UNCHANGED <<processed, run>>
    /\ UNCHANGED <<clock, change_cache, files, last_event, now, it_pos, it_used,
                   path, examined, rearmed, stage, started, inflight>>

\* handle_file_change after heal returned True: doc.generate reads the file
\* and announces the docs; then show_notification("Processed ...").  A
\* failing read raises into handle_file_change's except clause, which emits
\* the error notification.
doc_generate ==
    /\ pc = "doc_generate"
    /\ finished' = [finished EXCEPT ![path] = @ + 1]
    /\ \E readable \in BOOLEAN :
        IF readable
        THEN /\ trace' = trace \o <<"doc_read", "notify_docs", "notify_ok">>
             /\ run' = [run EXCEPT !.doc_content = files[path]]
             /\ UNCHANGED failed
        ELSE /\ trace' = trace \o <<"doc_read_failed", "notify_error">>
             /\ failed' = failed \cup {path}
             /\ UNCHANGED run
    /\ processed' = Append(processed, path)
    /\ pc' = "iterate"
    /\ UNCHANGED <<clock, change_cache, files, last_event, now, it_pos, it_used,
                   path, examined, rearmed, stage, started, inflight>>

\* ---------------------------------------------------------- specification
Next ==
    \/ Tick
    \/ \E event \in Events : on_modified(event)
    \/ process_changes_begin
    \/ iterate_next
    \/ delete_processed
    \/ heal_read
    \/ ruff_format
    \/ ruff_fix
    \/ heal_write
    \/ doc_generate

Spec == Init /\ [][Next]_vars

\* The steps of the asyncio loop: start() calls process_changes every 0.1 s
\* for as long as the loop lives, and every await in the handler returns.
SchedulerStep ==
    \/ process_changes_begin
    \/ iterate_next
    \/ delete_processed
    \/ heal_read
    \/ ruff_format
    \/ ruff_fix
    \/ heal_write
    \/ doc_generate

\* The loop keeps ticking and time passes; file events are under no
\* obligation to occur.
FairSpec == Spec /\ WF_vars(SchedulerStep) /\ WF_vars(Tick)

\* ------------------------------------------------- one stage on its own
\* The guardian as constructed, with no event and no scan.
SchedulerIdle ==
    /\ clock = 0
    /\ change_cache = <<>>
    /\ files = [p \in Paths |-> TextPlain]
    /\ pc = "sleep"
    /\ now = NoTime
    /\ processed = <<>>
    /\ it_pos = 0
    /\ it_used = 0
    /\ path = NoPath
    /\ run = NoRun
    /\ trace = <<>>
    /\ examined = [p \in Paths |-> NoTime]
    /\ failed = {}
    /\ last_event = [p \in Paths |-> NoTime]
    /\ rearmed = {}
    /\ started = [p \in Paths |-> 0]
    /\ finished = [p \in Paths |-> 0]
    /\ inflight = {}
    /\ observer = "alive"
    /\ launcher = "run_guardian"

\* The watch thread alone: events are delivered to on_modified while time
\* passes and no scan runs; fn_in is the event delivered last, fn_pass the
\* number of events delivered.
NoEvent == [src_path |-> NoPath, is_directory |-> FALSE]

InitWatch ==
    /\ SchedulerIdle
    /\ fn_in = NoEvent
    /\ fn_out = <<>>
    /\ fn_pass = 0

dispatch_event(event) ==
    /\ fn_pass < MaxEvents
    /\ on_modified_effect(event)
    /\ fn_in' = event
    /\ fn_pass' = fn_pass + 1
    /\ UNCHANGED <<fn_out, observer, launcher, clock, files, sched, hist>>

NextWatch ==
    \/ Tick
    \/ \E event \in Events : dispatch_event(event)

SpecWatch == InitWatch /\ [][NextWatch]_vars

\* The guardian with a formatter that may hang: proc_format.communicate()
\* never returns, so the await in _ruff_check_and_format never completes
\* and the coroutine chain heal / handle_file_change / process_changes /
\* start stays suspended there.
ruff_format_hangs ==
    /\ pc = "ruff_format"
    /\ pc' = "hung"
    /\ UNCHANGED <<clock, change_cache, files, last_event, rearmed, now,
                   processed, it_pos, it_used, path, run, trace, examined,
                   failed, stage, hist>>

NextHang ==
    \/ Next
    \/ ruff_format_hangs

SpecHang == Init /\ [][NextHang]_vars

\* The loop is scheduled and time passes; a formatter that hangs is not
\* obliged to return.
FairHang == SpecHang /\ WF_vars(SchedulerStep) /\ WF_vars(Tick)

\* The guardian over a longer time.  The change events are those of at most
\* MaxEdits edits from outside (fn_pass counts them) and those the observer
\* raises for the guardian's own write-backs, delivered at any later time.
TickLong ==
    /\ clock + TickStep <= MaxTimeLong
    /\ clock' = clock + TickStep
    /\ UNCHANGED <<change_cache, files, last_event, rearmed, sched, stage, hist>>

external_edit(p) ==
    /\ fn_pass < MaxEdits
    /\ on_modified_effect([src_path |-> p, is_directory |-> FALSE])
    /\ fn_pass' = fn_pass + 1
    /\ UNCHANGED <<fn_in, fn_out, observer, launcher, clock, files, sched, hist>>

observer_deliver(p) ==
    /\ p \in inflight
    /\ on_modified_effect([src_path |-> p, is_directory |-> FALSE])
    /\ inflight' = inflight \ {p}
    /\ UNCHANGED <<clock, files, sched, stage, started, finished>>

NextLong ==
    \/ TickLong
    \/ \E p \in Paths : external_edit(p)
    \/ \E p \in Paths : observer_deliver(p)
    \/ SchedulerStep

SpecLong == Init /\ [][NextLong]_vars

\* The guardian with the code that calls start().  main() of run_guardian.py
\* awaits it on the main thread under asyncio.run; guardian_runner of
\* StudyOS._start_background_services runs asyncio.run(start()) on a daemon
\* thread of the application.
Launchers == {"run_guardian", "app"}

InitLaunch ==
    /\ InitGuardian
    /\ launcher \in Launchers

\* The positions at which the loop of start() is running.
LoopPcs ==
    {"sleep", "iterate", "delete", "heal_read", "ruff_format", "ruff_fix",
     "heal_write", "doc_generate"}

\* The operator interrupts the process.  The signal reaches the main thread
\* only, so it ends the loop when main() of run_guardian.py drives it.
\* Raised inside the try block of start() it is a KeyboardInterrupt, and the
\* except clause stops the observer before start() joins it and returns;
\* delivered by the event loop as the cancellation of the task, it leaves
\* start() as an exception that its except clause does not name.
keyboard_interrupt ==
    /\ launcher = "run_guardian"
    /\ pc \in LoopPcs
    /\ \E in_try \in BOOLEAN :
        IF in_try
        THEN /\ observer' = "stopped"
             /\ pc' = "returned"
        ELSE /\ pc' = "cancelled"
             /\ UNCHANGED observer
    /\ UNCHANGED <<clock, change_cache, files, last_event, rearmed, now,
                   processed, it_pos, it_used, path, run, trace, examined,
                   failed, fn_in, fn_out, fn_pass, launcher, hist>>

\* main() of run_guardian.py once start() has returned or raised: the
\* finally clause stops and joins an observer that is still alive.
main_finally ==
    /\ launcher = "run_guardian"
    /\ pc \in {"crashed", "cancelled", "returned"}
    /\ observer' = "stopped"
    /\ pc' = "exited"
    /\ UNCHANGED <<clock, change_cache, files, last_event, rearmed, now,
                   processed, it_pos, it_used, path, run, trace, examined,
                   failed, fn_in, fn_out, fn_pass, launcher, hist>>

\* guardian_runner of the application: an exception that leaves start()
\* leaves asyncio.run and ends the daemon thread; nothing there refers to
\* the observer.
guardian_runner ==
    /\ launcher = "app"
    /\ pc = "crashed"
    /\ pc' = "exited"
    /\ UNCHANGED <<clock, change_cache, files, last_event, rearmed, now,
                   processed, it_pos, it_used, path, run, trace, examined,
                   failed, stage, hist>>

NextLaunch ==
    \/ Next
    \/ keyboard_interrupt
    \/ main_finally
    \/ guardian_runner

SpecLaunch == InitLaunch /\ [][NextLaunch]_vars

\* _fix_syntax(code) on a text, then on its own result.
InitPatch ==
    /\ SchedulerIdle
    /\ fn_in \in PatchInputs
    /\ fn_out = <<>>
    /\ fn_pass = 0

fix_syntax_apply ==
    /\ fn_pass < Passes
    /\ fn_out' = _fix_syntax(IF fn_pass = 0 THEN fn_in ELSE fn_out)
    /\ fn_pass' = fn_pass + 1
    /\ UNCHANGED <<fn_in, observer, launcher, clock, change_cache, files,
                   last_event, rearmed, sched, hist>>

NextPatch == fix_syntax_apply

SpecPatch == InitPatch /\ [][NextPatch]_vars

\* The two transform_module calls of _safe_ast_fixes on a parsed module.
InitRewrite ==
    /\ SchedulerIdle
    /\ fn_in \in Modules
    /\ fn_out = <<>>
    /\ fn_pass = 0

safe_ast_fixes_apply ==
    /\ fn_pass = 0
    /\ LET tree == fn_in
           fixed_tree == LoggerFix_transform_module(tree)
           final_tree == SelfAdder_transform_module(fixed_tree)
       IN  fn_out' = final_tree
    /\ fn_pass' = 1
    /\ UNCHANGED <<fn_in, observer, launcher, clock, change_cache, files,
                   last_event, rearmed, sched, hist>>

NextRewrite == safe_ast_fixes_apply

SpecRewrite == InitRewrite /\ [][NextRewrite]_vars

TypeOK ==
    /\ clock \in 0..MaxTime
    /\ pc \in {"sleep", "iterate", "delete", "crashed", "hung", "heal_read",
               "ruff_format", "ruff_fix", "heal_write", "doc_generate",
               "cancelled", "returned", "exited"}
    /\ observer \in {"alive", "stopped"}
    /\ launcher \in Launchers
    /\ path \in Paths \cup {NoPath}
    /\ SeqToSet(processed) \subseteq Paths

\* ------------------------------------------------------------------ claims
HandlerPcs == {"heal_read", "ruff_format", "ruff_fix", "heal_write", "doc_generate"}

Terminal == {"notify_ok", "notify_error"}

InTrace(e) == \E i \in 1..Len(trace) : trace[i] = e

\* The per-path sequence for path has started in this scan (and maybe ended).
Dispatched(p) ==
    \/ \E i \in 1..Len(processed) : processed[i] = p
    \/ (p = path /\ pc \in HandlerPcs)

\* The per-path sequence for path has returned and nothing has run since.
CycleDone == pc \notin HandlerPcs /\ trace # <<>>

\* C1: no change event is lost -- the scheduler never deletes a pending
\* entry whose timestamp is newer than the one the scan examined when it
\* dispatched the healing run for that path.
C1_NoEventLost ==
    [][\A p \in Paths :
          (p \in CachePaths /\ p \notin CachePaths') => Timestamp(p) = examined[p]]_vars

\* C2: on_modified may insert a path at any point of a scan and the scan
\* still completes normally -- the iteration never fails and the scheduler
\* loop keeps running.
C2_ScanNeverFails == pc # "crashed"

\* C3: isolation -- whether the per-path sequence of a file succeeds or
\* fails, no exception leaves the handler (the loop is never left from
\* inside the handler), and the handler returns into the running scan with
\* the pending set and the iterator as it found them; a due file the scan
\* examines after a failure is dispatched.
C3_Isolation ==
    [][/\ pc \in HandlerPcs => pc' # "crashed"
       /\ (pc \in HandlerPcs /\ pc' = "iterate") =>
              /\ processed' = Append(processed, path)
              /\ it_pos' = it_pos /\ it_used' = it_used /\ now' = now
              /\ change_cache' = change_cache
       /\ \A p \in Paths :
              (pc = "iterate" /\ it_pos' = it_pos + 1 /\ failed # {}
                /\ change_cache[it_pos].path = p
                /\ now - Timestamp(p) > DebounceTime)
              => (pc' = "heal_read" /\ path' = p)]_vars

\* A file is in its per-path sequence after another file of the same scan
\* failed.
C3_Witness == pc \in HandlerPcs /\ failed # {} /\ path \notin failed

\* C4: coalescing -- at most one pending entry per path; the entry carries
\* the timestamp of the last on_modified for the path since it was last
\* removed; and a scan starts at most one healing run per path.
C4_Coalescing ==
    /\ \A i, j \in 1..Len(change_cache) :
          change_cache[i].path = change_cache[j].path => i = j
    /\ \A p \in CachePaths : Timestamp(p) = last_event[p]
    /\ \A i, j \in 1..Len(processed) : processed[i] = processed[j] => i = j
    /\ pc \in HandlerPcs => \A i \in 1..Len(processed) : processed[i] # path

\* An entry was overwritten in place: it is older in the dict than the
\* entry after it and carries a newer timestamp.
C4_Witness ==
    /\ Len(change_cache) = 2
    /\ change_cache[1].timestamp > change_cache[2].timestamp

\* C5: debounce boundary -- a scan dispatches a path it examines if and only
\* if now minus the timestamp it read is strictly greater than the window,
\* and the timestamp it reads is that of the last on_modified for the path.
C5_DebounceBoundary ==
    /\ [](pc \in HandlerPcs \cup {"iterate"} =>
            \A p \in Paths :
                examined[p] # NoTime =>
                    (Dispatched(p) <=> now - examined[p] > DebounceTime))
    /\ [][\A p \in Paths :
            examined'[p] \notin {examined[p], NoTime} => examined'[p] = last_event[p]]_vars

\* One scan examined a path exactly one window old and left it pending, and
\* dispatched another that was older.
C5_Witness ==
    /\ pc \in HandlerPcs \cup {"iterate"}
    /\ \E p, q \in Paths :
        /\ examined[p] # NoTime /\ now - examined[p] = DebounceTime /\ ~Dispatched(p)
        /\ examined[q] # NoTime /\ now - examined[q] > DebounceTime /\ Dispatched(q)

\* C6: abort on unparsable -- when stage 2 cannot parse the output of
\* stage 1, the formatter and the linter are not invoked, nothing is written,
\* the file is what heal read, heal reports failure and no doc refresh runs.
C6_AbortOnUnparsable ==
    (run.code # NoText /\ ~parse_module_ok(_fix_syntax(run.code))) =>
        /\ pc \notin HandlerPcs
        /\ \A e \in {"format", "fix", "write", "write_failed", "heal_true",
                     "doc_read", "doc_read_failed", "notify_docs"} : ~InTrace(e)
        /\ files[path] = run.code
        /\ run.healed = "false"
        /\ InTrace("heal_false")

\* A healing run read a text that stage 1 does not make parsable, and ended.
C6_Witness ==
    /\ CycleDone
    /\ run.code = TextBad
    /\ InTrace("parse_failed")

\* C7: heal reports success if and only if stage 2 parsed the content and
\* the final content was written to the path; a formatter or linter failure
\* alone never makes it report failure.
C7_SuccessIffWritten ==
    /\ run.healed = "true" <=>
          (InTrace("safe_ast_fixes") /\ InTrace("write"))
    /\ InTrace("write") => files[path] = run.final_code
    /\ run.healed = "false" =>
          (InTrace("read_failed") \/ InTrace("parse_failed") \/ InTrace("write_failed"))
    /\ CycleDone => run.healed # "none"

\* A run whose formatter and linter both failed reported success.
C7_Witness ==
    /\ run.healed = "true"
    /\ run.format = "rc1"
    /\ run.fix \in {"rc1", "error"}

\* C8: formatter-failure fallback -- with both tools started, the text
\* passed to the lint fix is the formatter's output on exit 0 and the stage
\* input otherwise; the final text is the lint fix's output on exit 0 and
\* its input otherwise; that text is what the file holds after the write,
\* and the run fails only if the write fails.
C8_FormatterFallback ==
    (run.format \in {"rc0", "rc1"} /\ run.fix \in {"rc0", "rc1"}) =>
        LET stage_input == _safe_ast_fixes(_fix_syntax(run.code))
            lint_input == IF run.format = "rc0" THEN run.format_out ELSE stage_input
            final == IF run.fix = "rc0" THEN run.fix_out ELSE lint_input
        IN  /\ run.fix_in = lint_input
            /\ run.final_code = final
            /\ InTrace("write") => files[path] = final
            /\ run.healed = "true" => files[path] = final
            /\ run.healed = "false" => InTrace("write_failed")

\* The formatter failed, the lint fix failed, and the file was written.
C8_Witness ==
    /\ run.format = "rc1" /\ run.fix = "rc1"
    /\ run.healed = "true"
    /\ files[path] = _fix_syntax(run.code)
    /\ files[path] # run.code

\* C9: formatter-unavailable fallback -- when the tool cannot be started,
\* stage 3 returns its input, the file written back is the output of
\* stage 2, and the run fails only if the write fails.
C9_UnavailableFallback ==
    (run.format \in {"missing", "error"}) =>
        LET stage_input == _safe_ast_fixes(_fix_syntax(run.code))
        IN  /\ run.final_code = stage_input
            /\ ~InTrace("fix")
            /\ InTrace("write") => files[path] = stage_input
            /\ run.healed = "true" => files[path] = stage_input
            /\ run.healed = "false" => InTrace("write_failed")

\* The tool was not found and the run succeeded with the output of stage 2.
C9_Witness ==
    /\ run.format = "missing"
    /\ run.healed = "true"
    /\ files[path] = _fix_syntax(run.code)
    /\ files[path] # run.code

\* Number of terminal notifications in a trace.
RECURSIVE TerminalCount(_)
TerminalCount(t) ==
    IF t = <<>> THEN 0
    ELSE (IF Head(t) \in Terminal THEN 1 ELSE 0) + TerminalCount(Tail(t))

\* C10: every dispatched path yields exactly one terminal notification per
\* cycle -- none while the sequence runs, exactly one (success or error)
\* once it has returned, emitted last, after heal returned and after the doc
\* step when it ran.
C10_OneTerminalNotification ==
    /\ pc \in HandlerPcs => TerminalCount(trace) = 0
    /\ CycleDone =>
          /\ TerminalCount(trace) = 1
          /\ trace[Len(trace)] \in Terminal
          /\ InTrace("heal_true") \/ InTrace("heal_false")
          /\ InTrace("heal_true") => (InTrace("doc_read") \/ InTrace("doc_read_failed"))

\* A cycle whose doc step failed ended with the error notification.
C10_Witness ==
    /\ CycleDone
    /\ InTrace("doc_read_failed")
    /\ trace[Len(trace)] = "notify_error"

\* C11: when a healing run fails (read error, parse error, write error),
\* the terminal notification of the cycle is an error, not a success.
C11_FailedHealNotifiesError ==
    (CycleDone /\ run.healed = "false") => trace[Len(trace)] = "notify_error"

\* Position of the first occurrence of an event in the trace, 0 if none.
Pos(e) ==
    IF InTrace(e) THEN CHOOSE i \in 1..Len(trace) :
                           trace[i] = e /\ \A j \in 1..(i - 1) : trace[j] # e
    ELSE 0

\* Number of occurrences of the events of a set in a sequence.
RECURSIVE Count(_, _)
Count(t, events) ==
    IF t = <<>> THEN 0
    ELSE (IF Head(t) \in events THEN 1 ELSE 0) + Count(Tail(t), events)

DocEvents == {"doc_read", "doc_read_failed"}

\* C12: the doc refresher runs in a cycle if and only if the healing run of
\* that cycle succeeded, once, after the write-back, and what it reads is
\* the final text that heal wrote; it never runs after a failed heal.
C12_DocIffHealed ==
    /\ Count(trace, DocEvents) <= 1
    /\ Count(trace, DocEvents) = 1 =>
          /\ run.healed = "true"
          /\ 0 < Pos("write") /\ Pos("write") < Pos("heal_true")
          /\ \A e \in DocEvents : InTrace(e) => Pos("heal_true") < Pos(e)
    /\ CycleDone => (run.healed = "true" <=> Count(trace, DocEvents) = 1)
    /\ run.healed = "false" => Count(trace, DocEvents) = 0
    /\ run.doc_content # NoText =>
          (run.doc_content = run.final_code /\ run.doc_content = files[path])

\* The doc refresher read a file that the healing run had changed.
C12_Witness ==
    /\ CycleDone
    /\ InTrace("doc_read")
    /\ run.doc_content = files[path]
    /\ run.doc_content # run.code

\* C13: whenever a healing run reports failure, the file on disk is what it
\* was before the run.
C13_FailedHealLeavesFile ==
    (run.healed = "false" /\ run.code # NoText) => files[path] = run.code

\* C14: no automatic retry -- a handler that returns, after a failed heal
\* as after a successful one, leaves its path in processed; the second loop
\* removes every path of processed from the pending entries; and a scan
\* dispatches a path only if an on_modified for it has occurred since the
\* path was last dispatched.
C14_NoAutomaticRetry ==
    [][/\ (pc \in HandlerPcs /\ pc' = "iterate") =>
              processed' = Append(processed, path)
       /\ (pc = "delete" /\ processed # <<>> /\ sched' # sched) =>
              (Head(processed) \notin CachePaths' /\ processed' = Tail(processed))
       /\ (pc = "delete" /\ pc' = "sleep") => processed = <<>>
       /\ (pc = "iterate" /\ pc' = "heal_read") => path' \in rearmed]_vars

\* A scan has ended, a path whose heal failed in it is no longer pending and
\* no new event has re-armed it.
C14_Witness ==
    /\ pc = "sleep"
    /\ \E p \in failed : p \notin CachePaths /\ p \notin rearmed

\* The pending entry of p is the same before and after the step.
EntryKept(p) ==
    /\ p \in CachePaths'
    /\ \E i \in 1..Len(change_cache') :
          change_cache'[i] = [path |-> p, timestamp |-> Timestamp(p)]

StageRank(e) ==
    CASE e \in {"read", "read_failed"} -> 1
      [] e = "fix_syntax" -> 2
      [] e \in {"safe_ast_fixes", "parse_failed"} -> 3
      [] e = "format" -> 4
      [] e = "fix" -> 5
      [] e \in {"write", "write_failed"} -> 6
      [] OTHER -> 0

\* C17: within one healing run the file is read once, before any stage; the
\* stages run in the order _fix_syntax, _safe_ast_fixes, ruff format, ruff
\* check --fix, each on the output of the one before; the file is written
\* at most once, after the last stage.
C17_StageOrder ==
    /\ \A i, j \in 1..Len(trace) :
          (i < j /\ StageRank(trace[i]) > 0 /\ StageRank(trace[j]) > 0)
          => StageRank(trace[i]) < StageRank(trace[j])
    /\ trace # <<>> => StageRank(trace[1]) = 1
    /\ InTrace("fix_syntax") => InTrace("read")
    /\ (InTrace("safe_ast_fixes") \/ InTrace("parse_failed")) => InTrace("fix_syntax")
    /\ InTrace("format") => InTrace("safe_ast_fixes")
    /\ InTrace("fix") => InTrace("format")
    /\ (InTrace("write") \/ InTrace("write_failed")) => InTrace("format")
    /\ (run.code # NoText /\ ~InTrace("write") /\ ~InTrace("write_failed")) =>
          files[path] = run.code
    /\ InTrace("parse_failed") => ~parse_module_ok(_fix_syntax(run.code))
    /\ run.safe_fixed # NoText =>
          run.safe_fixed = _safe_ast_fixes(_fix_syntax(run.code))
    /\ run.formatted # NoText => run.formatted \in {run.format_out, run.safe_fixed}
    /\ run.fix_in # NoText => run.fix_in = run.formatted
    /\ InTrace("fix") => run.final_code \in {run.fix_out, run.formatted, run.safe_fixed}
    /\ InTrace("write") => files[path] = run.final_code

\* A run went through every stage on a text that stage 1 changes, and wrote.
C17_Witness ==
    /\ CycleDone
    /\ run.code = TextTry
    /\ run.safe_fixed # run.code
    /\ InTrace("fix") /\ InTrace("write")

\* The per-path sequence of p has returned with its terminal notification.
Notified(p) ==
    /\ path = p
    /\ CycleDone
    /\ trace[Len(trace)] \in Terminal

\* The latest timestamp whose window can elapse within the time modelled.
LastDue == MaxTime - DebounceTime - TickStep

\* C15: liveness -- with the loop ticking and tools that return, a path that
\* is recorded and receives no further event is eventually dispatched and
\* its cycle reaches the terminal notification, whatever events arrive for
\* other paths: a pending path that the running scan has not dispatched and
\* whose window can still elapse leads to its notification, or to a later
\* event for that path.
C15_EventuallyNotified ==
    \A p \in Paths : \A t \in 0..LastDue :
        (p \in CachePaths /\ Timestamp(p) = t /\ ~Dispatched(p))
            ~> (Notified(p) \/ (p \in CachePaths /\ Timestamp(p) > t))

\* C18: _fix_syntax is idempotent on texts made of block openers, with or
\* without colon, trailing comment or trailing blanks, and ordinary lines:
\* the second pass returns what the first returned.
C18_PatchIdempotent ==
    fn_pass = 2 => fn_out = _fix_syntax(fn_in)

\* The statement of a line: the line without indentation, trailing comment
\* and trailing blanks.
Statement(line) == rstrip(BeforeHash(lstrip(line)))

\* A try, except ..., finally, def ...) or class ... header without its
\* trailing colon.
OpenerLackingColon(line) ==
    LET stmt == Statement(line)
        word == LeadingWord(stmt)
    IN  /\ word \in BlockKeywords
        /\ ~endswith(stmt, Colon)
        /\ word = <<"d", "e", "f">> => endswith(stmt, <<")">>)

\* C19: _fix_syntax appends a colon to a line exactly when the line is a
\* block opener that lacks its trailing colon, and returns every other line
\* as it is.
C19_ColonExactlyOnOpeners ==
    fn_pass = 1 =>
        LET lines == splitlines(fn_in)
        IN  fn_out = join([i \in 1..Len(lines) |->
                            IF OpenerLackingColon(lines[i])
                            THEN lines[i] \o Colon
                            ELSE lines[i]])

\* C20: the tree passes prepend a self parameter to every function
\* definition whose first parameter is neither self nor cls, and leave the
\* definitions whose first parameter is self or cls as they are.
C20_SelfPrepended ==
    fn_pass = 1 =>
        /\ Len(fn_out) = Len(fn_in)
        /\ \A i \in 1..Len(fn_in) :
             fn_in[i].type = "FunctionDef" =>
                 LET params == fn_in[i].params
                 IN  params # <<>> =>
                       fn_out[i].params =
                           IF params[1] \in {"self", "cls"}
                           THEN params
                           ELSE <<"self">> \o params

\* C21: the tree passes turn every call <name>.warn(...) whose receiver is
\* a bare identifier, whatever the identifier, into <name>.warning(...), and
\* leave every other call as it is.
C21_WarnRenamed ==
    fn_pass = 1 =>
        /\ Len(fn_out) = Len(fn_in)
        /\ \A i \in 1..Len(fn_in) :
             fn_in[i].type = "Call" =>
                 LET func == fn_in[i].func
                 IN  fn_out[i] =
                       IF /\ func.type = "Attribute"
                          /\ func.value.type = "Name"
                          /\ func.attr = "warn"
                       THEN [type |-> "Call",
                             func |-> Attribute(func.value, "warning")]
                       ELSE fn_in[i]


\* One of the two tool invocations of the run could not be started or
\* exited non-zero.
ToolFailed ==
    run.format \in {"rc1", "missing", "error"} \/ run.fix \in {"rc1", "missing", "error"}

\* C22: when the external tool is unavailable or exits non-zero, no
\* notification with error=True is emitted for it, and the terminal
\* notification of a run that wrote the file and refreshed the docs is the
\* success notification.
C22_ToolFailureIsWarning ==
    ToolFailed =>
        /\ \A i \in 1..Len(trace) : trace[i] \notin ToolErrorNotifications
        /\ (CycleDone /\ InTrace("doc_read")) => trace[Len(trace)] = "notify_ok"

\* A name that is a file and ends in ".py".
IsSourceFile(n) ==
    /\ endswith(PathChars[n], DotPy)
    /\ \A event \in Events : event.src_path = n => ~event.is_directory

\* C23: only modification events for non-directory paths ending in ".py" are
\* recorded -- the pending entries never hold a directory or a path with
\* another suffix, an event for such a path changes nothing, and an event
\* for a source file leaves its entry with the current time.
C23_OnlySourceFilesRecorded ==
    /\ [](\A i \in 1..Len(change_cache) : IsSourceFile(change_cache[i].path))
    /\ [][fn_pass' = fn_pass + 1 =>
            IF IsSourceFile(fn_in'.src_path)
            THEN \E i \in 1..Len(change_cache') :
                    change_cache'[i] = [path |-> fn_in'.src_path, timestamp |-> clock]
            ELSE UNCHANGED <<clock, change_cache, files, last_event, rearmed, sched>>]_vars

\* After a source file was recorded, the events of a directory named like a
\* source file and of a compiled file were delivered and nothing else is
\* pending.
C23_Witness ==
    /\ fn_pass = MaxEvents
    /\ fn_in.src_path \in {"pkg.py", "a.pyc"}
    /\ CachePaths = {"a.py"}

\* C24: a pending entry is removed when its healing run is dispatched --
\* while the per-path sequence of a path is in progress, the path is not
\* pending unless an on_modified has recorded it again since the dispatch.
C24_RemovedAtDispatch ==
    pc \in HandlerPcs => (path \notin CachePaths \/ path \in rearmed)

\* Number of per-path sequences of p in progress.
Running(p) == started[p] - finished[p]

\* C25: at no time are two per-path sequences in progress, for the same
\* path or for different ones -- a sequence is in progress exactly while the
\* scan is inside the handler for that path -- also when events for the
\* path arrive during the run and when the run outlasts the poll interval
\* plus the debounce window.
C25_OneRunAtATime ==
    /\ \A p \in Paths : Running(p) \in {0, 1}
    /\ \A p, q \in Paths : (Running(p) = 1 /\ Running(q) = 1) => p = q
    /\ \A p \in Paths :
          Running(p) = 1 <=> (pc \in HandlerPcs /\ path = p)

\* A run that has lasted longer than the window plus a poll interval, during
\* which an event for its path arrived, and no second run of the path.
C25_Witness ==
    /\ pc \in HandlerPcs
    /\ clock - now > DebounceTime + 1
    /\ path \in rearmed
    /\ started[path] = 1 /\ finished[path] = 0

\* C27: the guardian does not re-arm itself -- the modification event that
\* a write-back causes never leads to another healing run of the path: with
\* at most one change event from outside, no path is dispatched twice.
C27_NoSelfRearm ==
    fn_pass <= 1 => \A p \in Paths : started[p] <= 1

\* C26: a formatter that never returns while one path is being processed
\* blocks that path only -- every other pending path whose window can
\* elapse is still dispatched and reaches its terminal notification, unless
\* a later event records it again.
C26_HangBlocksOnePath ==
    \A q \in Paths : \A t \in {0, LastDue} :
        (pc = "hung" /\ path # q /\ q \in CachePaths /\ Timestamp(q) = t
           /\ ~Dispatched(q))
            ~> (Notified(q) \/ (q \in CachePaths /\ Timestamp(q) > t))

\* C28: debounce under interleaving -- whenever a healing run of p is
\* dispatched, the timestamp the scan reads for p when it examines p is more
\* than the window older than the one now taken at the start of the scan; a
\* path recorded or recorded again after the scan started and before the
\* scan reaches it is not dispatched in that scan.
C28_DebounceInterleaved ==
    /\ [](pc \in HandlerPcs =>
            (examined[path] # NoTime /\ now - examined[path] > DebounceTime))
    /\ [][\A p \in Paths :
            (pc = "iterate" /\ it_pos' = it_pos + 1 /\ path' = p) =>
                /\ examined'[p] = Timestamp(p)
                /\ now' = now
                /\ pc' = "heal_read" => now - Timestamp(p) > DebounceTime
                /\ (last_event[p] >= now \/ now - Timestamp(p) <= DebounceTime)
                      => pc' = "iterate"]_vars

\* The scan, started when the clock had passed the window, examined a path
\* that was recorded again after the scan had started, and did not dispatch
\* it.
C28_Witness ==
    /\ pc = "iterate"
    /\ now > DebounceTime
    /\ \E p \in Paths :
        /\ examined[p] # NoTime
        /\ examined[p] > now
        /\ ~Dispatched(p)
        /\ p \in CachePaths

\* C29: the output of _ruff_check_and_format is its input, the formatter's
\* output or the lint fixer's output; when an invocation raises, also the
\* second one after the formatter has succeeded, the output is the input of
\* the stage, the formatter's result is dropped, and the run writes that
\* text back and succeeds unless the write itself fails.
C29_StageThreeOutput ==
    LET stage_input == _safe_ast_fixes(_fix_syntax(run.code))
        raised == run.format \in {"missing", "error"} \/ run.fix \in {"missing", "error"}
    IN  /\ run.final_code # NoText =>
              \/ run.final_code = stage_input
              \/ (run.format = "rc0" /\ run.final_code = run.format_out)
              \/ (run.fix = "rc0" /\ run.final_code = run.fix_out)
        /\ raised =>
              /\ run.final_code = stage_input
              /\ pc \in {"heal_write", "doc_generate"} \/ CycleDone
              /\ InTrace("write") => (files[path] = stage_input /\ run.healed = "true")
              /\ run.healed = "false" => InTrace("write_failed")
              /\ CycleDone => (InTrace("write") \/ InTrace("write_failed"))

\* The formatter succeeded, the lint fixer could not be started, and the
\* file holds the input of the stage, not the formatter's output.
C29_Witness ==
    /\ run.format = "rc0"
    /\ run.fix \in {"missing", "error"}
    /\ run.healed = "true"
    /\ files[path] = _fix_syntax(run.code)
    /\ files[path] # run.format_out


=============================================================================
